---- MODULE Spec2Model ----
(***************************************************************************)
(* buildbatter: derivation of pollers, schedulers and builders from a      *)
(* declarative description of build targets (buildbatter/build.py), and    *)
(* the CustomTrigger step.                                                  *)
(*                                                                         *)
(* Strings are sequences of atoms ("core", "_", "py", "2.6", ...).  The    *)
(* atoms used form a prefix code (no atom is a prefix of another), so two  *)
(* atom sequences are equal exactly when the Python strings they spell are *)
(* equal, and Python's "%s" formatting is sequence concatenation.          *)
(***************************************************************************)
EXTENDS Integers, Sequences, FiniteSets, TLC

VARIABLES
    manager,      \* BuildManager: [pyvers, slave_info, combinations]
    target_list,  \* BuildManager.target_list: the list object passed to add()
    registered,   \* history: the value of the list when add() was called
    returned,     \* history: the last call and the value it returned
    trigger,      \* a CustomTrigger step: [myWaitForFinish, waitForFinish]
    run,          \* the build the step belongs to, and what the step did
    downstream,   \* the build the step triggers
    chain,        \* history: the builds of a trigger chain, upstream first
    change        \* the change a poller produced, on its way to a scheduler

mgrVars == <<manager, target_list, registered, returned>>

trigVars == <<trigger, run, downstream>>

engineVars == <<chain, change>>

vars == <<manager, target_list, registered, returned, trigger, run, downstream, chain, change>>

-----------------------------------------------------------------------------
(* Generic sequence helpers.                                               *)

RECURSIVE Flatten(_)
Flatten(ss) == IF ss = <<>> THEN <<>> ELSE Head(ss) \o Flatten(Tail(ss))

Reverse(s) == [i \in 1..Len(s) |-> s[Len(s) + 1 - i]]

Range(s) == {s[i] : i \in DOMAIN s}

NoneVal == <<"None">>

US == <<"_">>

-----------------------------------------------------------------------------
(* Branches.                                                               *)

SVNBranch(name) ==
    [name |-> name, vcs |-> "svn", upstream_branch |-> <<>>,
     url |-> <<"url">>, poll_class |-> "SVNPoller", poll_frequency |-> 1200]

GitBranch(upstream_branch, name) ==
    [name |-> name, vcs |-> "git", upstream_branch |-> upstream_branch,
     url |-> <<"url">>, poll_class |-> "None", poll_frequency |-> 1200]

is_head(branch) ==
    IF branch.vcs = "git" THEN branch.upstream_branch = <<"master">>
    ELSE branch.name = <<"trunk">>

RepoName(t, branch) == t.name \o US \o branch.name

get_poller(t, branch) ==
    IF branch.poll_class = "None" \/ branch.poll_frequency = 0
       \/ branch.url = <<>>
    THEN <<>>
    ELSE << [repo_name |-> RepoName(t, branch), svnurl |-> branch.url,
             pollinterval |-> branch.poll_frequency] >>

-----------------------------------------------------------------------------
(* Names.                                                                  *)

NoBranch ==
    [name |-> <<>>, vcs |-> "none", upstream_branch |-> <<>>,
     url |-> <<>>, poll_class |-> "None", poll_frequency |-> 0]

Given(branch) == branch.vcs # "none"

CombinationSuffix(combination) ==
    combination[1] \o US \o combination[2] \o US

get_trigger_name(target_name, combination, pyver, branch) ==
    <<"triggered">> \o US \o target_name \o US
        \o CombinationSuffix(combination) \o <<"py">> \o pyver

\* get_builder_name without the branch segment of lines 335-336.
get_builder_name_NoBranchSegment(t, combination, pyver, branch, sandbox) ==
    IF t.name = combination[1] /\ Given(branch)
          /\ branch.name # combination[2]
    THEN NoneVal
    ELSE LET suffix0 == IF t.name = combination[1] THEN <<>>
                        ELSE CombinationSuffix(combination)
             suffix  == IF sandbox THEN suffix0 \o <<"sandbox">> \o US
                        ELSE suffix0
         IN  t.name \o US \o suffix \o <<"py">> \o pyver

\* get_builder_name without the owner's branch test of lines 323-324.
get_builder_name_NoOwnerTest(t, combination, pyver, branch, sandbox) ==
    LET suffix0 == IF t.name = combination[1] THEN <<>>
                   ELSE CombinationSuffix(combination)
        suffix  == IF sandbox THEN suffix0 \o <<"sandbox">> \o US
                   ELSE suffix0
        name    == IF Given(branch) /\ ~is_head(branch)
                         /\ Len(t.branches) > 1
                   THEN t.name \o US \o branch.name
                   ELSE t.name
    IN  name \o US \o suffix \o <<"py">> \o pyver

\* get_builder_name without the "len(self.branches) > 1" of line 335.
get_builder_name_NoBranchCount(t, combination, pyver, branch, sandbox) ==
    IF t.name = combination[1] /\ Given(branch)
          /\ branch.name # combination[2]
    THEN NoneVal
    ELSE LET suffix0 == IF t.name = combination[1] THEN <<>>
                        ELSE CombinationSuffix(combination)
             suffix  == IF sandbox THEN suffix0 \o <<"sandbox">> \o US
                        ELSE suffix0
             name    == IF Given(branch) /\ ~is_head(branch)
                        THEN t.name \o US \o branch.name
                        ELSE t.name
         IN  name \o US \o suffix \o <<"py">> \o pyver

\* BuildTarget.get_builder_name; callers never pass an excluded combination
\* (the assertion on its first line).
get_builder_name(t, combination, pyver, branch, sandbox) ==
    IF t.name = combination[1] /\ Given(branch)
          /\ branch.name # combination[2]
    THEN NoneVal
    ELSE LET suffix0 == IF t.name = combination[1] THEN <<>>
                        ELSE CombinationSuffix(combination)
             suffix  == IF sandbox THEN suffix0 \o <<"sandbox">> \o US
                        ELSE suffix0
             name    == IF Given(branch) /\ ~is_head(branch)
                              /\ Len(t.branches) > 1
                        THEN t.name \o US \o branch.name
                        ELSE t.name
         IN  name \o US \o suffix \o <<"py">> \o pyver

-----------------------------------------------------------------------------
(* BuildTarget: pollers and schedulers.  mgr is the target's manager.       *)

TargetGetPollers(t) ==
    Flatten([i \in DOMAIN t.branches |-> get_poller(t, t.branches[i])])

Triggerable(name, builderNames) ==
    [kind |-> "Triggerable", name |-> name, builderNames |-> builderNames]

RepoChangeScheduler(name, repo_names, builderNames) ==
    [kind |-> "RepoChangeScheduler", name |-> name, repo_names |-> repo_names,
     treeStableTimer |-> 60, builderNames |-> builderNames]

Nightly(name, builderNames, hour, minute) ==
    [kind |-> "Nightly", name |-> name, builderNames |-> builderNames,
     hour |-> hour, minute |-> minute]

Try_Jobdir(name, builderNames, jobdir) ==
    [kind |-> "Try_Jobdir", name |-> name, builderNames |-> builderNames,
     jobdir |-> jobdir]

\* The loops without the "if combination in self.exclude_from: continue".
PyverCombinationLoop_NoExclusion(mgr, t) ==
    Flatten([i \in DOMAIN mgr.pyvers |->
        [j \in DOMAIN mgr.combinations |->
            <<mgr.pyvers[i], mgr.combinations[j]>>]])

\* The (pyver, combination) pairs in the order of the loops
\* "for pyver in pyvers: for combination in combinations", excluded
\* combinations skipped.
PyverCombinationLoop(mgr, t) ==
    Flatten([i \in DOMAIN mgr.pyvers |->
        Flatten([j \in DOMAIN mgr.combinations |->
            IF mgr.combinations[j] \in t.exclude_from THEN <<>>
            ELSE << <<mgr.pyvers[i], mgr.combinations[j]>> >>])])

\* One pass of the "for branch in self.branches" loop of get_schedulers.
BranchSchedulers(mgr, t, branch) ==
    LET cells == PyverCombinationLoop(mgr, t)
        nameOf(k) == get_builder_name(t, cells[k][2], cells[k][1], branch,
                                      FALSE)
        builderNames ==
            Flatten([k \in DOMAIN cells |->
                IF nameOf(k) # NoneVal THEN <<nameOf(k)>> ELSE <<>>])
        triggerables ==
            Flatten([k \in DOMAIN cells |->
                IF nameOf(k) # NoneVal
                THEN << Triggerable(get_trigger_name(t.name, cells[k][2],
                                                     cells[k][1], branch),
                                    <<nameOf(k)>>) >>
                ELSE <<>>])
        repo_name == RepoName(t, branch)
    IN  triggerables
          \o << RepoChangeScheduler(repo_name, <<repo_name>>, builderNames) >>

TargetGetSchedulers(mgr, t) ==
    IF ~t.build_rules \/ t.nightly THEN <<>>
    ELSE Flatten([b \in DOMAIN t.branches |->
                      BranchSchedulers(mgr, t, t.branches[b])])

\* "%s-%s" % (self.name, combination): the name, a dash and the tuple's repr.
NightlyName(t, combination) ==
    t.name \o <<"-('">> \o combination[1] \o <<"', '">> \o combination[2]
        \o <<"')">>

NightlyBuilderNames(mgr, t, combination) ==
    Flatten([i \in DOMAIN mgr.pyvers |->
        [b \in DOMAIN t.branches |->
            get_builder_name(t, combination, mgr.pyvers[i], t.branches[b],
                             FALSE)]])

\* The loop of get_nightly_schedulers from combination k on, entered with the
\* accumulators hour and minute.
RECURSIVE NightlyLoop(_, _, _, _, _)
NightlyLoop(mgr, t, k, hour, minute) ==
    IF k > Len(mgr.combinations) THEN <<>>
    ELSE LET combination == mgr.combinations[k] IN
         IF combination \in t.exclude_from
         THEN NightlyLoop(mgr, t, k + 1, hour, minute)
         ELSE LET hour1   == hour + (t.nightly_stagger_interval \div 60)
                  minute1 == minute + (t.nightly_stagger_interval % 60)
                  hour2   == IF minute1 = 60 THEN hour1 + 1 ELSE hour1
                  minute2 == IF minute1 = 60 THEN 0 ELSE minute1
              IN  << Nightly(NightlyName(t, combination),
                             NightlyBuilderNames(mgr, t, combination),
                             hour, minute) >>
                    \o NightlyLoop(mgr, t, k + 1, hour2, minute2)

TargetGetNightlySchedulers(mgr, t) ==
    IF ~t.nightly THEN <<>>
    ELSE NightlyLoop(mgr, t, 1, t.nightly_hour, t.nightly_minute)

TargetGetSandboxSchedulers(mgr, t) ==
    IF t.allow_sandbox
    THEN LET cells == PyverCombinationLoop(mgr, t)
             nameOf(k, b) == get_builder_name(t, cells[k][2], cells[k][1],
                                              t.branches[b], TRUE)
             builder_names ==
                 Flatten([k \in DOMAIN cells |->
                     Flatten([b \in DOMAIN t.branches |->
                         IF nameOf(k, b) # NoneVal THEN <<nameOf(k, b)>>
                         ELSE <<>>])])
         IN  << Try_Jobdir(<<"sandbox">> \o US \o t.name, builder_names,
                           <<"jobdir">> \o US \o t.name) >>
    ELSE <<>>

-----------------------------------------------------------------------------
(* BuildTarget: builders.                                                   *)

\* The factory of a builder, as far as BuildRules.setup fixes it: the
\* arguments the step pipeline is assembled from.
BuildFactory(t, branch, pyver, workdir, combination, sandbox) ==
    [target |-> t.name, branch |-> branch.name, pyver |-> pyver,
     workdir |-> workdir, combination |-> combination, sandbox |-> sandbox]

TargetGetBuilders(mgr, t, combination, pyver, category, sandbox) ==
    IF ~t.build_rules \/ combination \in t.exclude_from THEN <<>>
    ELSE Flatten([b \in DOMAIN t.branches |->
        LET branch == t.branches[b]
            name   == get_builder_name(t, combination, pyver, branch, sandbox)
        IN  IF pyver \notin DOMAIN mgr.slave_info THEN <<>>
            ELSE IF name = NoneVal THEN <<>>
            ELSE << [name      |-> name,
                     slavename |-> mgr.slave_info[pyver][1],
                     builddir  |-> name,
                     factory   |-> BuildFactory(t, branch, pyver, t.name,
                                                combination, sandbox),
                     category  |-> category] >>])

TargetGetSandboxBuilders(mgr, t, combination, pyver) ==
    IF t.allow_sandbox
    THEN TargetGetBuilders(mgr, t, combination, pyver, "sandbox", TRUE)
    ELSE <<>>

-----------------------------------------------------------------------------
(* BuildManager.                                                            *)

ManagerGetPollers(tl) ==
    Flatten([i \in DOMAIN tl |-> TargetGetPollers(tl[i])])

ManagerGetSchedulers(mgr, tl) ==
    Flatten([i \in DOMAIN tl |-> TargetGetNightlySchedulers(mgr, tl[i])])
      \o Flatten([i \in DOMAIN tl |-> TargetGetSchedulers(mgr, tl[i])])
      \o Flatten([i \in DOMAIN tl |-> TargetGetSandboxSchedulers(mgr, tl[i])])

\* The three nested loops of get_builders over the list rev_target_list.
BuildersLoop(mgr, rev_target_list, sandbox) ==
    Flatten([i \in DOMAIN rev_target_list |->
        Flatten([j \in DOMAIN mgr.combinations |->
            Flatten([k \in DOMAIN mgr.pyvers |->
                IF sandbox
                THEN TargetGetSandboxBuilders(mgr, rev_target_list[i],
                                              mgr.combinations[j],
                                              mgr.pyvers[k])
                ELSE TargetGetBuilders(mgr, rev_target_list[i],
                                       mgr.combinations[j], mgr.pyvers[k],
                                       "builds", FALSE)])])])

\* rev_target_list = self.target_list; rev_target_list.reverse():
\* list.reverse() reverses in place the one list both names refer to.
ReversedInPlace(tl) == Reverse(tl)

ManagerGetBuilders(mgr, rev_target_list) ==
    BuildersLoop(mgr, rev_target_list, FALSE)
      \o BuildersLoop(mgr, rev_target_list, TRUE)

-----------------------------------------------------------------------------
(* CustomTrigger.                                                           *)

\* The waitForFinish argument of the constructor: a bool, or the
\* WithProperties("%(nightly:-<default>)s") that BuildRules.addSteps passes
\* when wait_for_triggers is false.
Bool(b) == [kind |-> "bool", value |-> b, default |-> ""]

WithProperties(default) ==
    [kind |-> "WithProperties", value |-> FALSE, default |-> default]

NoProperty == "<absent>"

\* str(self.build.getProperties().render(x)): a bool renders as itself; the
\* WithProperties renders the build's nightly property when the build has
\* one and the default otherwise.
RenderStr(x, nightly) ==
    IF x.kind = "bool" THEN (IF x.value THEN "True" ELSE "False")
    ELSE IF nightly # NoProperty THEN nightly
    ELSE x.default

\* CustomTrigger.__init__
CustomTrigger(waitForFinish) ==
    [waitForFinish |-> waitForFinish, myWaitForFinish |-> waitForFinish]

haltOnFailure_Unset == FALSE

haltOnFailure == TRUE

\* start() without the last line, "self.waitForFinish = self.myWaitForFinish".
CustomTriggerStart_NoRestore(step, nightly) ==
    LET resolved == Bool(RenderStr(step.myWaitForFinish, nightly) = "True")
    IN  [handed |-> resolved.value,
         step |-> [step EXCEPT !.waitForFinish = resolved]]

\* CustomTrigger.start: the value Trigger.start reads from self.waitForFinish
\* (handed), and the step when start() returns.
CustomTriggerStart(step, nightly) ==
    LET resolved == Bool(RenderStr(step.myWaitForFinish, nightly) = "True")
        during   == [step EXCEPT !.waitForFinish = resolved]
    IN  [handed |-> during.waitForFinish.value,
         step |-> [during EXCEPT !.waitForFinish = during.myWaitForFinish]]

-----------------------------------------------------------------------------
(* BuildRules: the step pipeline of a builder.  A step is the class given   *)
(* to f.addStep with its arguments.                                         *)

Step(kind, args) == [kind |-> kind, args |-> args]

\* WithProperties("%(<prop>)s") and WithProperties("%(<prop>:-<default>)s")
\* on a property other than the nightly one.
Interpolate(prop, default) ==
    [kind |-> "Interpolate", prop |-> prop, default |-> default]

NightlyKey == <<"nightly">>

UploadPathKey == <<"upload", "_", "path">>

\* str(properties.render(x)) in a build with the given properties.
Render(x, properties) ==
    IF x.kind = "Interpolate"
    THEN (IF x.prop \in DOMAIN properties THEN properties[x.prop]
          ELSE x.default)
    ELSE RenderStr(x, IF NightlyKey \in DOMAIN properties
                      THEN properties[NightlyKey] ELSE NoProperty)

\* nightly = WithProperties("%(nightly:-" + str(self.target.nightly) + ")s")
NightlyExpr(t) == WithProperties(IF t.nightly THEN "True" ELSE "False")

\* The argument without the "self.target.wait_for_triggers or".
WaitForFinishArg_NoWaitForTriggers(t) == NightlyExpr(t)

\* waitForFinish=self.target.wait_for_triggers or nightly
WaitForFinishArg(t) ==
    IF t.wait_for_triggers THEN Bool(TRUE) ELSE NightlyExpr(t)

\* workdir_key = "%s_workdir" % self.target.name
WorkdirKey(t) == t.name \o US \o <<"workdir">>

\* dict(a, **b): the entries of a, with those of b added or put in their
\* place.
DictUpdate(a, b) ==
    [k \in DOMAIN a \cup DOMAIN b |-> IF k \in DOMAIN b THEN b[k] ELSE a[k]]

\* The set_properties with the value of self.target.nightly in the place of
\* the WithProperties on the nightly property.
SetPropertiesArg_StaticNightly(t) ==
    DictUpdate([k \in {WorkdirKey(t), NightlyKey, UploadPathKey} |->
                    IF k = WorkdirKey(t) THEN Interpolate(WorkdirKey(t), "")
                    ELSE IF k = NightlyKey THEN Bool(t.nightly)
                    ELSE Interpolate(UploadPathKey, "")],
               t.trigger_properties)

\* set_properties=dict({...}, **self.target.trigger_properties)
SetPropertiesArg(t) ==
    DictUpdate([k \in {WorkdirKey(t), NightlyKey, UploadPathKey} |->
                    IF k = WorkdirKey(t) THEN Interpolate(WorkdirKey(t), "")
                    ELSE IF k = NightlyKey THEN NightlyExpr(t)
                    ELSE Interpolate(UploadPathKey, "")],
               t.trigger_properties)

\* Branch.add_checkout_step of SVNBranch and of GitBranch.
add_checkout_step(t, branch, workdir) ==
    << Step(IF branch.vcs = "git" THEN "Git" ELSE "SVN",
            [reponame |-> RepoName(t, branch), url |-> branch.url,
             workdir |-> workdir]) >>

\* BuildRules.addCheckoutSteps: "if self.branch".
addCheckoutSteps(t, branch, workdir) ==
    IF Given(branch) THEN add_checkout_step(t, branch, workdir) ELSE <<>>

\* addTestSteps and addUploadSteps: no class of the repository overrides
\* the "pass" of BuildRules.
addTestSteps(rules) == <<>>

addUploadSteps(rules) == <<>>

\* addBuildSteps: "pass" in BuildRules, BuildSDist and, with build_eggs,
\* BuildEgg in PythonModuleBuildRules.
addBuildSteps(rules, workdir) ==
    IF rules.class = "PythonModuleBuildRules"
    THEN << Step("BuildSDist", [workdir |-> workdir,
                                 use_egg_info |-> rules.build_eggs]) >>
           \o (IF rules.build_eggs
               THEN << Step("BuildEgg", [workdir |-> workdir]) >> ELSE <<>>)
    ELSE <<>>

\* The loop "for trigger in self.target.triggers" of BuildRules.addSteps.
TriggerSteps(t, combination, pyver, branch) ==
    [i \in DOMAIN t.triggers |->
        Step("CustomTrigger",
             [schedulerNames |-> << get_trigger_name(t.triggers[i], combination,
                                                     pyver, branch) >>,
              waitForFinish |-> WaitForFinishArg(t),
              updateSourceStamp |-> FALSE,
              set_properties |-> SetPropertiesArg(t)])]

\* BuildRules.addSteps, on a rules object set up for (t, branch, pyver,
\* workdir, combination).
BuildRulesAddSteps(rules, t, branch, pyver, workdir, combination) ==
    addCheckoutSteps(t, branch, workdir)
      \o << Step("SetProperty", [property |-> WorkdirKey(t),
                                 workdir |-> workdir]) >>
      \o addTestSteps(rules)
      \o addBuildSteps(rules, workdir)
      \o addUploadSteps(rules)
      \o TriggerSteps(t, combination, pyver, branch)

\* PythonModuleBuildRules.addEggSteps
addEggSteps(rules) ==
    IF rules.egg_deps # <<>>
    THEN << Step("EasyInstall", [packages |-> rules.egg_deps]) >> ELSE <<>>

\* PythonModuleBuildRules.addSteps
PythonModuleBuildRulesAddSteps(rules, t, branch, pyver, workdir, combination) ==
    << Step("VirtualEnv", [python |-> <<"python">> \o pyver]) >>
      \o addEggSteps(rules)
      \o BuildRulesAddSteps(rules, t, branch, pyver, workdir, combination)

\* self.build_rules.addSteps(f): the method of the object's class.
addSteps(rules, t, branch, pyver, workdir, combination) ==
    IF rules.class = "PythonModuleBuildRules"
    THEN PythonModuleBuildRulesAddSteps(rules, t, branch, pyver, workdir,
                                        combination)
    ELSE BuildRulesAddSteps(rules, t, branch, pyver, workdir, combination)

\* No change yet.  A change carries the repo_name attribute when tagged;
\* target and branch are history: the poller that produced it.
NoChange ==
    [tagged |-> FALSE, repo_name |-> <<>>, target |-> <<>>, branch |-> <<>>]

NoTrigger ==
    /\ trigger = CustomTrigger(Bool(FALSE))
    /\ run = [constructed |-> Bool(FALSE), nightly |-> NoProperty,
              pc |-> "none", handed |-> FALSE, previous |-> FALSE,
              result |-> "none", laterRan |-> FALSE, builds |-> 0]
    /\ downstream = "none"
    /\ chain = <<>>
    /\ change = NoChange

-----------------------------------------------------------------------------
(* The configurations explored.                                             *)

MaxTargets == 2

Core == <<"core">>
Plugin == <<"plugin">>
CoreDev == <<"core", "_", "dev">>

V26 == <<"2.6">>
V27 == <<"2.7">>

Trunk == SVNBranch(<<"trunk">>)
Dev == SVNBranch(<<"dev">>)
Rel == SVNBranch(<<"rel">>)
Stable == GitBranch(<<"master">>, <<"stable">>)
Next1 == GitBranch(<<"master">>, <<"next">>)

CT == <<Core, <<"trunk">>>>
CD == <<Core, <<"dev">>>>
PT == <<Plugin, <<"trunk">>>>

\* BuildTarget.__init__ with its defaults for the arguments not given.
BuildTarget(name, branches, build_rules, allow_sandbox, nightly, triggers, exclude_from) ==
    [name |-> name, branches |-> branches, build_rules |-> build_rules,
     allow_sandbox |-> allow_sandbox, nightly |-> nightly,
     nightly_hour |-> 0, nightly_minute |-> 0,
     nightly_stagger_interval |-> 0, triggers |-> triggers,
     wait_for_triggers |-> FALSE, trigger_properties |-> <<>>,
     exclude_from |-> exclude_from]

BranchLists == { <<Dev>>, <<Trunk, Dev>>, <<Dev, Rel>>, <<Stable, Next1>> }

\* <<build_rules given, allow_sandbox, nightly>>
Flavours == { <<TRUE, FALSE, FALSE>>, <<TRUE, TRUE, FALSE>>,
              <<TRUE, FALSE, TRUE>>, <<FALSE, TRUE, TRUE>> }

Exclusions == { {}, {CT} }

TargetsNamed(name) ==
    IF name = CoreDev
    THEN { BuildTarget(name, <<Trunk>>, TRUE, FALSE, FALSE, <<>>, {}) }
    ELSE { BuildTarget(name, bl, f[1], f[2], f[3],
                       IF name = Plugin THEN <<Core>> ELSE <<>>, ex) :
             bl \in BranchLists, f \in Flavours, ex \in Exclusions }

TargetNames == { Core, Plugin, CoreDev }

\* The lists add() is called with: up to MaxTargets targets of distinct names.
TargetLists ==
    UNION { { tl \in [1..n -> UNION { TargetsNamed(nm) : nm \in TargetNames }] :
                \A i, j \in 1..n : i # j => tl[i].name # tl[j].name } :
            n \in 1..MaxTargets }

SlaveInfos ==
    { [v \in {V26, V27} |-> <<<<"slave">> \o v>>],
      [v \in {V26} |-> <<<<"slave">> \o v>>] }

Managers ==
    [pyvers : { <<V26, V27>> },
     slave_info : SlaveInfos,
     combinations : { <<CT>>, <<CT, CD>>, <<CT, PT>> }]

-----------------------------------------------------------------------------
(* The state machine: a manager is constructed, add() registers the        *)
(* targets, and the three derivations are called in any order.             *)

Init ==
    /\ manager \in Managers
    /\ target_list = <<>>
    /\ registered = <<>>
    /\ returned = [op |-> "init", value |-> <<>>]
    /\ NoTrigger

AddTargets(lists) ==
    /\ registered = <<>>
    /\ \E targets \in lists :
          /\ target_list' = targets
          /\ registered' = targets
    /\ returned' = [op |-> "add", value |-> <<>>]
    /\ UNCHANGED <<manager, trigVars, engineVars>>

Add == AddTargets(TargetLists)

GetPollers ==
    /\ returned' = [op |-> "get_pollers",
                    value |-> ManagerGetPollers(target_list)]
    /\ UNCHANGED <<manager, target_list, registered, trigVars, engineVars>>

GetSchedulers ==
    /\ returned' = [op |-> "get_schedulers",
                    value |-> ManagerGetSchedulers(manager, target_list)]
    /\ UNCHANGED <<manager, target_list, registered, trigVars, engineVars>>

GetBuilders ==
    /\ target_list' = ReversedInPlace(target_list)
    /\ returned' = [op |-> "get_builders",
                    value |-> ManagerGetBuilders(manager, target_list')]
    /\ UNCHANGED <<manager, registered, trigVars, engineVars>>

Next == Add \/ GetPollers \/ GetSchedulers \/ GetBuilders

Spec == Init /\ [][Next]_vars

-----------------------------------------------------------------------------
(* get_builder_name called on its own, on a registered target, with a      *)
(* combination the target does not exclude.                                *)

AddOne == AddTargets({ tl \in TargetLists : Len(tl) = 1 })

GetBuilderName ==
    /\ \E i \in DOMAIN target_list :
          LET t == target_list[i] IN
          \E j \in DOMAIN manager.combinations, k \in DOMAIN manager.pyvers,
             branch \in Range(t.branches) \cup {NoBranch},
             sandbox \in BOOLEAN :
             /\ manager.combinations[j] \notin t.exclude_from
             /\ returned' =
                  [op |-> "get_builder_name",
                   value |-> [target |-> t,
                              combination |-> manager.combinations[j],
                              pyver |-> manager.pyvers[k],
                              branch |-> branch,
                              sandbox |-> sandbox,
                              result |-> get_builder_name(
                                  t, manager.combinations[j],
                                  manager.pyvers[k], branch, sandbox)]]
    /\ UNCHANGED <<manager, target_list, registered, trigVars, engineVars>>

NextName == AddOne \/ GetBuilderName

SpecName == Init /\ [][NextName]_vars

-----------------------------------------------------------------------------
(* Nightly targets with a start time and a stagger, over three             *)
(* combinations.                                                           *)

MaxStagger == 90

NightlyTarget(hour, minute, stagger, exclude_from) ==
    [BuildTarget(Core, <<Trunk>>, TRUE, FALSE, TRUE, <<>>, exclude_from)
        EXCEPT !.nightly_hour = hour, !.nightly_minute = minute,
               !.nightly_stagger_interval = stagger]

NightlyLists ==
    { << NightlyTarget(hour, minute, stagger, ex) >> :
        hour \in {0, 23}, minute \in 0..59, stagger \in 0..MaxStagger,
        ex \in Exclusions }

InitNightly ==
    /\ manager = [pyvers |-> <<V26>>,
                  slave_info |-> [v \in {V26} |-> <<<<"slave">> \o v>>],
                  combinations |-> <<CT, CD, PT>>]
    /\ target_list = <<>>
    /\ registered = <<>>
    /\ returned = [op |-> "init", value |-> <<>>]
    /\ NoTrigger

AddNightly == AddTargets(NightlyLists)

NextNightly == AddNightly \/ GetSchedulers

SpecNightly == InitNightly /\ [][NextNightly]_vars

-----------------------------------------------------------------------------
(* A build whose pipeline holds a CustomTrigger step followed by a later   *)
(* step, run by the execution engine, MaxBuilds times on the same step.    *)

MaxBuilds == 2

ConstructValues ==
    { Bool(TRUE), Bool(FALSE), WithProperties("True"), WithProperties("False") }

NightlyProperties == { NoProperty, "True", "False", "yes" }

NewRun(constructed, nightly, previous, builds) ==
    [constructed |-> constructed, nightly |-> nightly, pc |-> "ready",
     handed |-> FALSE, previous |-> previous, result |-> "none",
     laterRan |-> FALSE, builds |-> builds]

InitTrigger ==
    /\ manager = [pyvers |-> <<V26>>,
                  slave_info |-> [v \in {V26} |-> <<<<"slave">> \o v>>],
                  combinations |-> <<CT>>]
    /\ target_list = <<>>
    /\ registered = <<>>
    /\ returned = [op |-> "init", value |-> <<>>]
    /\ \E c \in ConstructValues, n \in NightlyProperties :
          /\ trigger = CustomTrigger(c)
          /\ run = NewRun(c, n, FALSE, 1)
    /\ downstream = "none"
    /\ chain = <<>>
    /\ change = NoChange

\* The underlying trigger invocation, given the waitForFinish it reads: the
\* mechanism may fail; otherwise the downstream build is fired, and the step
\* waits for it or succeeds at once.
TriggerInvocation(handed, mechanism) ==
    IF mechanism = "error"
    THEN [pc |-> "finished", result |-> "FAILURE", downstream |-> "none"]
    ELSE IF handed
    THEN [pc |-> "waiting", result |-> "none", downstream |-> "running"]
    ELSE [pc |-> "finished", result |-> "SUCCESS", downstream |-> "running"]

StartTrigger ==
    /\ run.pc = "ready"
    /\ \E mechanism \in {"ok", "error"} :
          LET r == CustomTriggerStart(trigger, run.nightly)
              e == TriggerInvocation(r.handed, mechanism)
          IN  /\ trigger' = r.step
              /\ run' = [run EXCEPT !.handed = r.handed, !.pc = e.pc,
                                    !.result = e.result]
              /\ downstream' = e.downstream
    /\ UNCHANGED <<mgrVars, engineVars>>

\* The triggered build ends; a step waiting for it finishes with its result.
DownstreamFinishes ==
    /\ downstream = "running"
    /\ \E outcome \in {"succeeded", "failed"} :
          /\ downstream' = outcome
          /\ run' = IF run.pc = "waiting"
                    THEN [run EXCEPT !.pc = "finished",
                                     !.result = IF outcome = "failed"
                                                THEN "FAILURE" ELSE "SUCCESS"]
                    ELSE run
    /\ UNCHANGED <<mgrVars, trigger, engineVars>>

\* The engine after the trigger step finished: a failed step with
\* haltOnFailure ends the build, otherwise the later step runs.
StepDone ==
    /\ run.pc = "finished"
    /\ run' = IF run.result = "FAILURE" /\ haltOnFailure
              THEN [run EXCEPT !.pc = "halted"]
              ELSE [run EXCEPT !.pc = "done", !.laterRan = TRUE]
    /\ UNCHANGED <<mgrVars, trigger, downstream, engineVars>>

\* Another build on the same step object, with its own nightly property.
NewBuild ==
    /\ run.pc \in {"halted", "done"}
    /\ run.builds < MaxBuilds
    /\ \E n \in NightlyProperties :
          run' = NewRun(run.constructed, n, run.handed, run.builds + 1)
    /\ downstream' = "none"
    /\ UNCHANGED <<mgrVars, trigger, engineVars>>

NextTrigger == StartTrigger \/ DownstreamFinishes \/ StepDone \/ NewBuild

SpecTrigger == InitTrigger /\ [][NextTrigger]_vars

-----------------------------------------------------------------------------
(* A trigger chain at run time: the engine runs the configuration the      *)
(* manager derived; a build's trigger step fires the scheduler it           *)
(* addresses, which starts a build of the downstream builder with the       *)
(* rendered set_properties as its properties.                               *)

\* The rules objects of the repository's classes.
RulesPool ==
    { [class |-> "BuildRules", build_eggs |-> FALSE, egg_deps |-> <<>>] }
      \cup [class : {"PythonModuleBuildRules"}, build_eggs : BOOLEAN,
            egg_deps : { <<>>, <<"egg">> }]

TriggerPropertiesPool ==
    { <<>>, [k \in {NightlyKey} |-> Bool(FALSE)],
      [k \in {<<"release">>} |-> Bool(TRUE)] }

ChainTarget(name, triggers, nightly, wait_for_triggers, trigger_properties) ==
    [BuildTarget(name, <<Trunk>>, TRUE, FALSE, nightly, triggers, {})
        EXCEPT !.wait_for_triggers = wait_for_triggers,
               !.trigger_properties = trigger_properties]

\* plugin triggers core_dev, which triggers core; only the head of a chain
\* may be nightly, a nightly target having no triggerable scheduler.
ChainLists ==
    { << ChainTarget(Plugin, <<CoreDev>>, n1, w1, p1),
         ChainTarget(CoreDev, <<Core>>, n2, w2, p2),
         ChainTarget(Core, <<>>, FALSE, FALSE, <<>>) >> :
        n1 \in BOOLEAN, w1 \in BOOLEAN, p1 \in TriggerPropertiesPool,
        n2 \in BOOLEAN, w2 \in BOOLEAN, p2 \in TriggerPropertiesPool }

InitChain ==
    /\ manager = [pyvers |-> <<V26>>,
                  slave_info |-> [v \in {V26} |-> <<<<"slave">> \o v>>],
                  combinations |-> <<CT>>]
    /\ target_list = <<>>
    /\ registered = <<>>
    /\ returned = [op |-> "init", value |-> <<>>]
    /\ NoTrigger

AddChain == AddTargets(ChainLists)

\* A build of a builder, with the properties it starts with.
Build(builder, properties) ==
    [builder |-> builder.name, target |-> builder.factory.target,
     properties |-> properties, pc |-> "running", handed |-> FALSE,
     blocked |-> FALSE, fired |-> FALSE]

\* A scheduler or a forced build starts a build of a non-sandbox builder;
\* only a forced build gives it a nightly property.
ChainStart ==
    /\ chain = <<>>
    /\ target_list # <<>>
    /\ \E b \in Range(ManagerGetBuilders(manager, target_list)),
          n \in NightlyProperties :
          /\ b.category = "builds"
          /\ chain' = << Build(b, IF n = NoProperty THEN <<>>
                                  ELSE [k \in {NightlyKey} |-> n]) >>
    /\ UNCHANGED <<mgrVars, trigVars, change>>

\* The trigger step of a build of builder b of target t starts: the
\* SetProperty step has set the workdir property, CustomTrigger.start
\* resolves waitForFinish, and the invocation fires the addressed scheduler,
\* whose builder starts a build with the rendered set_properties.
StartChainTrigger(t, args, schedulers, builders) ==
    \E props \in { DictUpdate(chain[Len(chain)].properties,
                              [k \in {WorkdirKey(t)} |-> "dir"]) } :
    \E r \in { CustomTriggerStart(CustomTrigger(args.waitForFinish),
                                  IF NightlyKey \in DOMAIN props
                                  THEN props[NightlyKey] ELSE NoProperty) } :
    \E addressed \in { { i \in DOMAIN schedulers :
                           /\ schedulers[i].kind = "Triggerable"
                           /\ schedulers[i].name = args.schedulerNames[1] } } :
    \E e \in { TriggerInvocation(r.handed, IF addressed = {} THEN "error"
                                           ELSE "ok") } :
    \E done \in { [chain EXCEPT ![Len(chain)].pc = "triggered",
                                ![Len(chain)].handed = r.handed,
                                ![Len(chain)].blocked = (e.pc = "waiting"),
                                ![Len(chain)].fired = (addressed # {})] } :
        IF addressed = {}
        THEN chain' = done
        ELSE \E i \in addressed, d \in Range(builders) :
                /\ d.name = schedulers[i].builderNames[1]
                /\ chain' = Append(done,
                       Build(d, [key \in DOMAIN args.set_properties |->
                                    Render(args.set_properties[key], props)]))

\* The last build of the chain reaches the trigger steps of its pipeline.
ChainTrigger ==
    /\ chain # <<>>
    /\ chain[Len(chain)].pc = "running"
    /\ \E builders \in { ManagerGetBuilders(manager, target_list) },
          schedulers \in { ManagerGetSchedulers(manager, target_list) } :
       \E b \in Range(builders), t \in Range(target_list), rules \in RulesPool :
       \E branch \in Range(t.branches) :
          /\ b.name = chain[Len(chain)].builder
          /\ t.name = b.factory.target
          /\ branch.name = b.factory.branch
          /\ \E steps \in { addSteps(rules, t, branch, b.factory.pyver,
                                     b.factory.workdir,
                                     b.factory.combination) } :
             \E k \in DOMAIN steps :
                /\ steps[k].kind = "CustomTrigger"
                /\ StartChainTrigger(t, steps[k].args, schedulers, builders)
    /\ UNCHANGED <<mgrVars, trigVars, change>>

NextChain == AddChain \/ ChainStart \/ ChainTrigger

SpecChain == InitChain /\ [][NextChain]_vars

-----------------------------------------------------------------------------
(* Change routing: the pollers of the configuration produce changes, and   *)
(* the engine hands each change to the change-driven schedulers.            *)

DevTrunk == SVNBranch(<<"dev", "_", "trunk">>)

\* <<build_rules given, nightly>>
RoutingFlavours == { <<TRUE, FALSE>>, <<TRUE, TRUE>>, <<FALSE, FALSE>> }

RoutingTargets(name) ==
    { BuildTarget(name, bl, f[1], FALSE, f[2], <<>>, {}) :
        bl \in (IF name = Core
                THEN { <<Trunk>>, <<Trunk, Dev>>, <<DevTrunk>>, <<Stable>> }
                ELSE IF name = CoreDev THEN { <<Trunk>> }
                ELSE { <<Trunk>>, <<Dev>> }),
        f \in RoutingFlavours }

RoutingLists ==
    UNION { { tl \in [1..n -> UNION { RoutingTargets(nm) : nm \in TargetNames }] :
                \A i, j \in 1..n : i # j => tl[i].name # tl[j].name } :
            n \in 1..MaxTargets }

InitChange ==
    /\ manager = [pyvers |-> <<V26>>,
                  slave_info |-> [v \in {V26} |-> <<<<"slave">> \o v>>],
                  combinations |-> <<CT>>]
    /\ target_list = <<>>
    /\ registered = <<>>
    /\ returned = [op |-> "init", value |-> <<>>]
    /\ NoTrigger

AddRouting == AddTargets(RoutingLists)

\* SVNPoller.create_changes: a poller the manager emitted for a branch
\* tags the changes it creates with its repo_name.
CreateChanges ==
    /\ \E t \in Range(target_list) :
       \E branch \in Range(t.branches) :
       \E poller \in Range(get_poller(t, branch)) :
          /\ poller \in Range(ManagerGetPollers(target_list))
          /\ change' = [tagged |-> TRUE, repo_name |-> poller.repo_name,
                        target |-> t.name, branch |-> branch.name]
    /\ UNCHANGED <<mgrVars, trigVars, chain>>

\* A change from a source that sets no repo_name.
UntaggedChange ==
    /\ target_list # <<>>
    /\ change' = [tagged |-> FALSE, repo_name |-> <<>>,
                  target |-> <<"elsewhere">>, branch |-> <<>>]
    /\ UNCHANGED <<mgrVars, trigVars, chain>>

\* addChange passing every change on.
RepoChangeSchedulerAddChange_NoFilter(scheduler, c) == TRUE

\* RepoChangeScheduler.addChange: whether the change is passed on to
\* Scheduler.addChange.
RepoChangeSchedulerAddChange(scheduler, c) ==
    ~c.tagged \/ c.repo_name \in Range(scheduler.repo_names)

\* The engine hands the change to the change-driven scheduler that
\* get_schedulers() emitted for branch of target t.
AddChange ==
    /\ change # NoChange
    /\ \E schedulers \in { ManagerGetSchedulers(manager, target_list) } :
       \E t \in Range(target_list) :
       \E branch \in Range(t.branches) :
       \E own \in { BranchSchedulers(manager, t, branch) } :
       \E i \in DOMAIN own :
          /\ TargetGetSchedulers(manager, t) # <<>>
          /\ own[i].kind = "RepoChangeScheduler"
          /\ own[i] \in Range(schedulers)
          /\ returned' =
               [op |-> "addChange",
                value |-> [scheduler |-> own[i].name, change |-> change,
                           target |-> t.name, branch |-> branch.name,
                           accepted |-> RepoChangeSchedulerAddChange(own[i],
                                                                     change)]]
    /\ UNCHANGED <<manager, target_list, registered, trigVars, engineVars>>

NextChange ==
    AddRouting \/ GetSchedulers \/ CreateChanges \/ UntaggedChange \/ AddChange

SpecChange == InitChange /\ [][NextChange]_vars

-----------------------------------------------------------------------------
(* The pipeline BuildTarget.get_builders assembles for a surviving cell,   *)
(* with the rules objects of both classes.                                  *)

PipelineLists ==
    { << [BuildTarget(Plugin, bl, TRUE, FALSE, nightly, triggers, {})
             EXCEPT !.wait_for_triggers = wait] >> :
        bl \in { <<Trunk>>, <<Stable>>, <<Trunk, Dev>> },
        nightly \in BOOLEAN, wait \in BOOLEAN,
        triggers \in { <<>>, <<Core>>, <<Core, CoreDev>>, <<CoreDev, Core>> } }

InitPipeline ==
    /\ manager \in [pyvers : { <<V26, V27>> },
                    slave_info : SlaveInfos,
                    combinations : { <<CT>>, <<CT, PT>> }]
    /\ target_list = <<>>
    /\ registered = <<>>
    /\ returned = [op |-> "init", value |-> <<>>]
    /\ NoTrigger

AddPipeline == AddTargets(PipelineLists)

\* The body of the branch loop of get_builders for one cell that survives
\* it: setup() and addSteps(f) on the target's rules object.
AddSteps ==
    /\ \E t \in Range(target_list), rules \in RulesPool :
       \E branch \in Range(t.branches),
          i \in DOMAIN manager.pyvers, j \in DOMAIN manager.combinations :
          /\ manager.combinations[j] \notin t.exclude_from
          /\ manager.pyvers[i] \in DOMAIN manager.slave_info
          /\ get_builder_name(t, manager.combinations[j], manager.pyvers[i],
                              branch, FALSE) # NoneVal
          /\ returned' =
               [op |-> "addSteps",
                value |-> [rules |-> rules, target |-> t,
                           steps |-> addSteps(rules, t, branch,
                                              manager.pyvers[i], t.name,
                                              manager.combinations[j])]]
    /\ UNCHANGED <<manager, target_list, registered, trigVars, engineVars>>

NextPipeline == AddPipeline \/ AddSteps

SpecPipeline == InitPipeline /\ [][NextPipeline]_vars

-----------------------------------------------------------------------------
(* Properties.                                                              *)

BuilderNames(builders) == [i \in DOMAIN builders |-> builders[i].name]

NoDuplicates(s) == \A i, j \in DOMAIN s : i # j => s[i] # s[j]

HasUnderscore(str) == \E i \in DOMAIN str : str[i] = "_"

PlainName(str) == ~HasUnderscore(str) /\ str # <<"sandbox">>

\* The configurations whose cells have distinct names by construction.
WellFormed ==
    /\ NoDuplicates([i \in DOMAIN registered |-> registered[i].name])
    /\ NoDuplicates(manager.combinations)
    /\ NoDuplicates(manager.pyvers)
    /\ \A i \in DOMAIN manager.pyvers : ~HasUnderscore(manager.pyvers[i])
    /\ \A i \in DOMAIN manager.combinations :
          PlainName(manager.combinations[i][1])
            /\ PlainName(manager.combinations[i][2])
    /\ \A i \in DOMAIN registered :
          LET t == registered[i] IN
          /\ PlainName(t.name)
          /\ NoDuplicates([b \in DOMAIN t.branches |-> t.branches[b].name])
          /\ \A b \in DOMAIN t.branches : PlainName(t.branches[b].name)
          /\ \A b, c \in DOMAIN t.branches :
                is_head(t.branches[b]) /\ is_head(t.branches[c]) => b = c

\* C1 as stated: in every configuration, get_builders() returns no two
\* builder records with the same name.
C1_UniqueNames_Original ==
    returned.op = "get_builders" => NoDuplicates(BuilderNames(returned.value))

\* C1 amended: get_builders() returns no two builder records with the same
\* name when target names are pairwise distinct, each target's branch names
\* are distinct with at most one head branch, combinations and versions are
\* listed once, and no target name, branch name, combination component or
\* version contains "_" and none of the names is "sandbox".
C1_UniqueNames_WellFormed ==
    (returned.op = "get_builders" /\ WellFormed)
        => NoDuplicates(BuilderNames(returned.value))

\* Two well-formed multi-branch targets, sandbox and non-sandbox records.
C1_Witness ==
    /\ returned.op = "get_builders"
    /\ WellFormed
    /\ Len(registered) = 2
    /\ \A i \in DOMAIN registered : Len(registered[i].branches) = 2
    /\ \E i, j \in DOMAIN returned.value :
          /\ returned.value[i].category = "builds"
          /\ returned.value[j].category = "sandbox"
    /\ Len(returned.value) >= 8

\* C2: every entry of the builderNames of every scheduler returned by
\* get_schedulers() is the name of a builder record get_builders() returns for
\* the same configuration (so excluded cells, cells without a name and cells
\* of a version without a worker are in no scheduler).
C2_SchedulersNameBuilders ==
    returned.op = "get_schedulers" =>
        LET names == Range(BuilderNames(
                         ManagerGetBuilders(manager, target_list)))
        IN  \A i \in DOMAIN returned.value :
                \A k \in DOMAIN returned.value[i].builderNames :
                    returned.value[i].builderNames[k] \in names

\* The target with nothing excluded, and the manager as it would be if the
\* combinations the target excludes were not on the combination axis.
Unexcluded(t) == [t EXCEPT !.exclude_from = {}]

WithoutExcluded(mgr, t) ==
    [mgr EXCEPT !.combinations =
        SelectSeq(mgr.combinations, LAMBDA c : c \notin t.exclude_from)]

SchedulersIgnoringExcluded(mgr, tl) ==
    Flatten([i \in DOMAIN tl |->
        TargetGetNightlySchedulers(WithoutExcluded(mgr, tl[i]),
                                   Unexcluded(tl[i]))])
      \o Flatten([i \in DOMAIN tl |->
        TargetGetSchedulers(WithoutExcluded(mgr, tl[i]), Unexcluded(tl[i]))])
      \o Flatten([i \in DOMAIN tl |->
        TargetGetSandboxSchedulers(WithoutExcluded(mgr, tl[i]),
                                   Unexcluded(tl[i]))])

BuildersIgnoringExcluded(mgr, tl, sandbox) ==
    Flatten([i \in DOMAIN tl |->
        LET t == Unexcluded(tl[i])
            m == WithoutExcluded(mgr, tl[i])
        IN  Flatten([j \in DOMAIN m.combinations |->
                Flatten([k \in DOMAIN m.pyvers |->
                    IF sandbox
                    THEN TargetGetSandboxBuilders(m, t, m.combinations[j],
                                                  m.pyvers[k])
                    ELSE TargetGetBuilders(m, t, m.combinations[j],
                                           m.pyvers[k], "builds", FALSE)])])])

\* C3: excluding combination c from target T removes the cells of T under c
\* from get_schedulers() and get_builders() and changes no other target's
\* part: both outputs are what they would be if, for each target separately,
\* the combinations it excludes were not on the combination axis at all; no
\* builder record is of a cell T x c, and (names being unambiguous) no
\* triggerable or nightly scheduler of T x c is emitted.
C3_ExclusionFrame ==
    /\ returned.op = "get_schedulers" =>
          /\ returned.value = SchedulersIgnoringExcluded(manager, target_list)
          /\ WellFormed =>
                \A i \in DOMAIN target_list : \A c \in target_list[i].exclude_from :
                    \A s \in DOMAIN returned.value :
                        /\ returned.value[s].name
                              # NightlyName(target_list[i], c)
                        /\ \A v \in DOMAIN manager.pyvers :
                              returned.value[s].name
                                # get_trigger_name(target_list[i].name, c,
                                                   manager.pyvers[v], NoBranch)
    /\ returned.op = "get_builders" =>
          /\ returned.value =
                BuildersIgnoringExcluded(manager, target_list, FALSE)
                  \o BuildersIgnoringExcluded(manager, target_list, TRUE)
          /\ \A i \in DOMAIN target_list : \A c \in target_list[i].exclude_from :
                \A b \in DOMAIN returned.value :
                    ~(returned.value[b].factory.target = target_list[i].name
                        /\ returned.value[b].factory.combination = c)

\* A target excluding a combination of the axis beside a target that excludes
\* nothing, both contributing schedulers.
C3_Witness ==
    /\ returned.op = "get_schedulers"
    /\ Len(target_list) = 2
    /\ Len(manager.combinations) = 2
    /\ target_list[1].exclude_from = {manager.combinations[1]}
    /\ target_list[2].exclude_from = {}
    /\ \A i \in {1, 2} : target_list[i].build_rules /\ ~target_list[i].nightly
    /\ target_list[1].allow_sandbox
    /\ Len(returned.value) >= 6

\* The end-to-end scenario: core (branches trunk (head) and dev) and plugin
\* (triggers core, owns no combination; a single branch or a head branch),
\* both with build rules and nothing excluded, the one combination
\* (core, trunk), versions 2.6 and 2.7 with a worker each.
Scenario ==
    /\ Len(registered) = 2
    /\ \E i, j \in {1, 2} :
          /\ registered[i].name = Core
          /\ registered[i].branches = <<Trunk, Dev>>
          /\ registered[j].name = Plugin
          /\ registered[j].triggers = <<Core>>
          /\ \/ Len(registered[j].branches) = 1
             \/ \E b \in DOMAIN registered[j].branches :
                   is_head(registered[j].branches[b])
    /\ \A i \in {1, 2} :
          registered[i].build_rules /\ registered[i].exclude_from = {}
    /\ manager.combinations = <<CT>>
    /\ manager.pyvers = <<V26, V27>>
    /\ DOMAIN manager.slave_info = {V26, V27}

NameOf(base, pyver) == base \o US \o <<"py">> \o pyver

\* C4 as stated: in the scenario get_builders() returns records named
\* core_py2.6, core_py2.7, core_dev_py2.6, core_dev_py2.7,
\* plugin_core_trunk_py2.6 and plugin_core_trunk_py2.7.
C4_Scenario_Original ==
    (Scenario /\ returned.op = "get_builders") =>
        \A v \in {V26, V27} :
            { NameOf(Core, v), NameOf(Core \o US \o <<"dev">>, v),
              NameOf(Plugin \o US \o Core \o US \o <<"trunk">>, v) }
                \subseteq Range(BuilderNames(returned.value))

\* C4 amended: in the scenario get_builders() returns records named
\* core_py2.6, core_py2.7, plugin_core_trunk_py2.6 and
\* plugin_core_trunk_py2.7, and none named core_dev_py2.6 or core_dev_py2.7:
\* core's dev branch is an excluded cell under core's own combination
\* (core, trunk).
C4_Scenario_Amended ==
    (Scenario /\ returned.op = "get_builders") =>
        \A v \in {V26, V27} :
            /\ { NameOf(Core, v),
                 NameOf(Plugin \o US \o Core \o US \o <<"trunk">>, v) }
                  \subseteq Range(BuilderNames(returned.value))
            /\ NameOf(Core \o US \o <<"dev">>, v)
                  \notin Range(BuilderNames(returned.value))

C4_Witness ==
    /\ Scenario
    /\ returned.op = "get_builders"
    /\ registered[1].name = Core
    /\ registered[2].branches = <<Dev>>

\* The identity function of the specification, section 4.2: the segments of
\* the name, joined by "_".
RECURSIVE JoinUS(_)
JoinUS(segments) ==
    IF Len(segments) = 1 THEN segments[1]
    ELSE segments[1] \o <<"_">> \o JoinUS(Tail(segments))

Identity(targetName, nBranches, c, version, b, s) ==
    IF targetName = c[1] /\ Given(b) /\ b.name # c[2] THEN <<"None">>
    ELSE JoinUS(
           <<targetName>>
             \o (IF Given(b) /\ ~is_head(b) /\ nBranches > 1
                 THEN <<b.name>> ELSE <<>>)
             \o (IF targetName = c[1] THEN <<>> ELSE <<c[1], c[2]>>)
             \o (IF s THEN <<<<"sandbox">>>> ELSE <<>>)
             \o << <<"py">> \o version >>)

\* C5: get_builder_name returns the value of the identity function of
\* section 4.2, which reads only the target's name and number of branches,
\* the combination, the version, the branch and the sandbox flag: none for
\* an owner with a branch other than the combination's, else
\* <base>_<suffix>py<V>; a single-branch target's name has no branch segment.
C5_IdentityFunction ==
    returned.op = "get_builder_name" =>
        LET a == returned.value IN
        /\ a.result = Identity(a.target.name, Len(a.target.branches),
                               a.combination, a.pyver, a.branch, a.sandbox)
        /\ (Len(a.target.branches) = 1 /\ a.result # NoneVal) =>
              a.result \in
                  { a.target.name \o US \o x \o <<"py">> \o a.pyver :
                      x \in { <<>>, <<"sandbox", "_">>,
                              CombinationSuffix(a.combination),
                              CombinationSuffix(a.combination)
                                  \o <<"sandbox", "_">> } }

\* A non-owner, a non-head branch of a two-branch target, sandbox.
C5_Witness ==
    /\ returned.op = "get_builder_name"
    /\ returned.value.target.name # returned.value.combination[1]
    /\ Len(returned.value.target.branches) = 2
    /\ Given(returned.value.branch)
    /\ ~is_head(returned.value.branch)
    /\ returned.value.sandbox
    /\ returned.value.result =
          returned.value.target.name \o US \o returned.value.branch.name
              \o US \o CombinationSuffix(returned.value.combination)
              \o <<"sandbox", "_", "py">> \o returned.value.pyver

MinuteOfDay(s) == s.hour * 60 + s.minute

\* C6: the nightly schedulers of a nightly target come in declared
\* combination order, each with minute in 0..59, and each starts exactly
\* nightly_stagger_interval minutes after the one before it, for every start
\* minute and every stagger.
C6_NightlyStagger ==
    (returned.op = "get_schedulers" /\ Len(target_list) = 1
        /\ target_list[1].nightly) =>
        LET t == target_list[1]
            nightlies == SelectSeq(returned.value,
                                   LAMBDA s : s.kind = "Nightly")
            declared == SelectSeq(manager.combinations,
                                  LAMBDA c : c \notin t.exclude_from)
        IN  /\ Len(nightlies) = Len(declared)
            /\ \A i \in DOMAIN nightlies :
                  /\ nightlies[i].name = NightlyName(t, declared[i])
                  /\ nightlies[i].minute \in 0..59
                  /\ i > 1 =>
                        MinuteOfDay(nightlies[i])
                          = MinuteOfDay(nightlies[i - 1])
                              + t.nightly_stagger_interval

\* C7: derivation never mutates the registered configuration: after add(),
\* any sequence of get_pollers(), get_schedulers() and get_builders() calls
\* leaves the manager's target list (the caller's list) as it was registered,
\* every get_builders() call returns the names the first one returns, and
\* get_schedulers() and get_pollers() return what they return right after
\* add().
C7_DerivationDoesNotMutate ==
    /\ target_list = registered
    /\ returned.op = "get_builders" =>
          BuilderNames(returned.value)
            = BuilderNames(ManagerGetBuilders(manager, Reverse(registered)))
    /\ returned.op = "get_schedulers" =>
          returned.value = ManagerGetSchedulers(manager, registered)
    /\ returned.op = "get_pollers" =>
          returned.value = ManagerGetPollers(registered)

RegistrationIndex(name) ==
    CHOOSE k \in DOMAIN registered : registered[k].name = name

\* C8: get_builders() emits builders target by target in reverse registration
\* order within the non-sandbox group and within the sandbox group, and every
\* sandbox record comes after every non-sandbox record.
C8_ReverseRegistrationOrder ==
    returned.op = "get_builders" =>
        \A i, j \in DOMAIN returned.value :
            i < j =>
                /\ returned.value[i].category = "sandbox"
                      => returned.value[j].category = "sandbox"
                /\ returned.value[i].category = returned.value[j].category
                      => RegistrationIndex(returned.value[i].factory.target)
                           >= RegistrationIndex(
                                  returned.value[j].factory.target)

\* The wait-for-finish value a construction value stands for in a build.
ResolvedWait(constructed, nightly) ==
    CASE constructed.kind = "bool" -> constructed.value
      [] nightly = NoProperty -> constructed.default = "True"
      [] OTHER -> nightly = "True"

\* C9: whenever start() has returned, the step's waitForFinish is the value
\* given at construction, whatever the build's properties were, and the
\* value each start() hands to the trigger invocation is resolved from the
\* construction value and that build's nightly property alone.
C9_WaitFlagRestored ==
    /\ trigger.waitForFinish = run.constructed
    /\ trigger.myWaitForFinish = run.constructed
    /\ run.pc \notin {"none", "ready"} =>
          run.handed = ResolvedWait(run.constructed, run.nightly)

\* A second start() that resolved to "do not wait" after a first one that
\* resolved to "wait".
C9_Witness ==
    /\ run.builds = 2
    /\ run.pc \notin {"none", "ready"}
    /\ run.constructed.kind = "WithProperties"
    /\ run.previous
    /\ ~run.handed

\* C10 as stated: a failure of a trigger (the mechanism errors or the
\* triggered build fails) means no later step of the issuing pipeline runs,
\* whether the resolved waitForFinish was true or false.
C10_TriggerFailureHalts_Original ==
    (run.result = "FAILURE" \/ downstream = "failed") => ~run.laterRan

\* C10 amended: a trigger step that finishes with a failure (the mechanism
\* errors, or the triggered build the step waited for fails) halts the
\* issuing pipeline, whether the resolved waitForFinish was true or false;
\* the failure of a triggered build is the step's failure when the resolved
\* waitForFinish was true.  (When it was false the step has already
\* succeeded and the pipeline has gone on.)
C10_TriggerFailureHalts_Amended ==
    /\ run.result = "FAILURE" =>
          ~run.laterRan /\ run.pc \in {"finished", "halted"}
    /\ (run.handed /\ downstream = "failed") => run.result = "FAILURE"

\* A pipeline halted by a trigger that did not wait.
C10_Witness ==
    /\ run.pc = "halted"
    /\ run.result = "FAILURE"
    /\ ~run.handed
    /\ ~run.laterRan

\* "This run is currently nightly": the build's nightly property when it has
\* one (as PythonDistCommand.start reads it, str(...) == "True"), the
\* target's static nightly otherwise.
CurrentlyNightly(properties, t) ==
    IF NightlyKey \in DOMAIN properties THEN properties[NightlyKey] = "True"
    ELSE t.nightly

\* The registered target a build of the chain belongs to.
TargetOf(build) == CHOOSE t \in Range(registered) : t.name = build.target

\* C11: at every trigger-start the wait-for-finish value handed to the
\* trigger invocation is (target.wait_for_triggers OR the run is currently
\* nightly); an invocation that fires its scheduler blocks the step exactly
\* when that value is true, and one that cannot fire blocks nothing.
C11_WaitResolvedAtStart ==
    \A i \in DOMAIN chain :
        chain[i].pc = "triggered" =>
            LET t == TargetOf(chain[i])
                wait == t.wait_for_triggers
                          \/ CurrentlyNightly(chain[i].properties, t)
            IN  /\ chain[i].handed = wait
                /\ chain[i].fired => (chain[i].blocked <=> wait)
                /\ ~chain[i].fired => ~chain[i].blocked

\* A statically non-nightly target without wait_for_triggers whose trigger
\* step blocks because the build was started with nightly = True, followed
\* by one whose step fires and does not block, the build having been
\* started with nightly = False.
C11_Witness ==
    /\ Len(chain) = 3
    /\ ~TargetOf(chain[1]).nightly /\ ~TargetOf(chain[1]).wait_for_triggers
    /\ chain[1].properties = [k \in {NightlyKey} |-> "True"]
    /\ chain[1].fired /\ chain[1].blocked
    /\ ~TargetOf(chain[2]).wait_for_triggers
    /\ NightlyKey \in DOMAIN chain[2].properties
    /\ chain[2].properties[NightlyKey] = "False"
    /\ chain[2].fired /\ ~chain[2].blocked

\* The nightly property of a build, as a string ("<absent>" without one).
NightlyOf(build) ==
    IF NightlyKey \in DOMAIN build.properties
    THEN build.properties[NightlyKey] ELSE NoProperty

\* The nightly value a build passes on: its own nightly property when it
\* has one, the static nightly of its target otherwise.
Propagated(build) ==
    IF NightlyOf(build) # NoProperty THEN NightlyOf(build)
    ELSE IF TargetOf(build).nightly THEN "True" ELSE "False"

\* C12 as stated: every downstream build gets the nightly value its issuing
\* build propagates; so after a nightly start every downstream build has
\* nightly = True and every trigger step waits, and after a start with
\* nightly = False no downstream build is nightly.
C12_NightlyPropagates_Original ==
    /\ \A i \in DOMAIN chain :
          i > 1 => NightlyOf(chain[i]) = Propagated(chain[i - 1])
    /\ (chain # <<>> /\ Propagated(chain[1]) = "True") =>
          /\ \A i \in DOMAIN chain : i > 1 => NightlyOf(chain[i]) = "True"
          /\ \A i \in DOMAIN chain : chain[i].pc = "triggered"
                                        => chain[i].handed
    /\ (chain # <<>> /\ NightlyOf(chain[1]) = "False") =>
          \A i \in DOMAIN chain : NightlyOf(chain[i]) = "False"

\* The issuing target's trigger_properties leave the nightly key alone.
PassesNightlyOn(build) ==
    NightlyKey \notin DOMAIN TargetOf(build).trigger_properties

\* C12 amended: the same, for issuing builds of targets whose
\* trigger_properties do not define 'nightly' themselves.
C12_NightlyPropagates_Amended ==
    /\ \A i \in DOMAIN chain :
          (i > 1 /\ PassesNightlyOn(chain[i - 1]))
              => NightlyOf(chain[i]) = Propagated(chain[i - 1])
    /\ (chain # <<>> /\ Propagated(chain[1]) = "True") =>
          \A i \in DOMAIN chain :
              (\A j \in 1..(i - 1) : PassesNightlyOn(chain[j])) =>
                  /\ i > 1 => NightlyOf(chain[i]) = "True"
                  /\ chain[i].pc = "triggered" => chain[i].handed
    /\ (chain # <<>> /\ NightlyOf(chain[1]) = "False") =>
          \A i \in DOMAIN chain :
              (\A j \in 1..(i - 1) : PassesNightlyOn(chain[j])) =>
                  NightlyOf(chain[i]) = "False"

\* A chain of three builds started by the nightly scheduler of a nightly
\* target, through a statically non-nightly target that does not ask to
\* wait: both downstream builds are nightly and the second trigger waits.
C12_Witness ==
    /\ Len(chain) = 3
    /\ NightlyOf(chain[1]) = NoProperty
    /\ TargetOf(chain[1]).nightly
    /\ ~TargetOf(chain[2]).nightly /\ ~TargetOf(chain[2]).wait_for_triggers
    /\ PassesNightlyOn(chain[1]) /\ PassesNightlyOn(chain[2])
    /\ NightlyOf(chain[2]) = "True" /\ NightlyOf(chain[3]) = "True"
    /\ chain[2].pc = "triggered" /\ chain[2].handed

\* The names of the schedulers the trigger steps of a builder's pipeline
\* address, the pipeline being assembled as get_builders() does, from the
\* target and the branch the record was made for; the targets considered
\* are those whose triggers all name registered targets.
AddressedSchedulers(builder) ==
    UNION { UNION { LET steps == addSteps(rules, tb[1], tb[2],
                                          builder.factory.pyver,
                                          builder.factory.workdir,
                                          builder.factory.combination)
                    IN  { steps[k].args.schedulerNames[1] :
                            k \in { n \in DOMAIN steps :
                                      steps[n].kind = "CustomTrigger" } } :
                    rules \in RulesPool } :
            tb \in { x \in Range(target_list)
                             \X { Trunk, Dev, Rel, Stable, Next1 } :
                       /\ x[1].name = builder.factory.target
                       /\ x[2] \in Range(x[1].branches)
                       /\ x[2].name = builder.factory.branch
                       /\ \A d \in Range(x[1].triggers) :
                              \E u \in Range(target_list) : u.name = d } }

\* C13: every trigger step in the pipeline of a builder returned by
\* get_builders() addresses the name of exactly one scheduler of
\* get_schedulers().
C13_TriggersAddressOneScheduler ==
    returned.op = "get_builders" =>
        \A schedulers \in { ManagerGetSchedulers(manager, target_list) } :
        \A i \in DOMAIN returned.value :
        \A addressed \in AddressedSchedulers(returned.value[i]) :
            Cardinality({ j \in DOMAIN schedulers :
                            schedulers[j].name = addressed }) = 1

\* The change-driven schedulers among a list of schedulers, for one
\* repository identity.
ChangeSchedulersFor(schedulers, repo_name) ==
    { j \in DOMAIN schedulers :
        /\ schedulers[j].kind = "RepoChangeScheduler"
        /\ schedulers[j].repo_names = <<repo_name>> }

\* C14 as stated: get_schedulers() holds exactly one change-driven
\* scheduler for each branch of each non-nightly target with build rules,
\* and the scheduler of (T', B') passes on a change tagged by the poller of
\* (T, B) only when (T', B') = (T, B).
C14_ChangeRouting_Original ==
    /\ returned.op = "get_schedulers" =>
          \A t \in Range(target_list) :
              (t.build_rules /\ ~t.nightly) =>
                  \A branch \in Range(t.branches) :
                      Cardinality(ChangeSchedulersFor(
                          returned.value, RepoName(t, branch))) = 1
    /\ (returned.op = "addChange" /\ returned.value.change.tagged) =>
          (returned.value.accepted <=>
              /\ returned.value.target = returned.value.change.target
              /\ returned.value.branch = returned.value.change.branch)

\* No target name and no branch name holds a '_', so that "<T>_<B>" spells
\* one (T, B) only.
RoutingWellFormed ==
    \A t \in Range(target_list) :
        /\ ~HasUnderscore(t.name)
        /\ \A branch \in Range(t.branches) : ~HasUnderscore(branch.name)

\* C14 amended: the same, for configurations in which no target name and no
\* branch name holds a '_'.
C14_ChangeRouting_Amended ==
    RoutingWellFormed => C14_ChangeRouting_Original

\* A change of one branch of a target refused by the scheduler of the
\* target's other branch, in a well-formed configuration.
C14_Witness ==
    /\ RoutingWellFormed
    /\ returned.op = "addChange"
    /\ returned.value.change.tagged
    /\ returned.value.target = returned.value.change.target
    /\ returned.value.branch # returned.value.change.branch
    /\ ~returned.value.accepted

\* The phase a step belongs to: 1 checkout, 2 announce-workdir and
\* environment setup, 3 test, 4 build/package, 5 upload, 6
\* trigger-downstream.
Phase(step) ==
    CASE step.kind \in {"SVN", "Git"} -> 1
      [] step.kind \in {"SetProperty", "VirtualEnv", "EasyInstall"} -> 2
      [] step.kind \in {"NoseTests"} -> 3
      [] step.kind \in {"BuildSDist", "BuildEgg"} -> 4
      [] step.kind \in {"UploadDist"} -> 5
      [] OTHER -> 6

\* C15: in every assembled pipeline the first step is a checkout step, no
\* step of a later phase precedes a step of an earlier one, and the trigger
\* steps are the last steps, one per name of target.triggers in declared
\* order.
C15_PhaseOrder ==
    returned.op = "addSteps" =>
        LET steps == returned.value.steps
            t == returned.value.target
            n == Len(steps) - Len(t.triggers)
        IN  /\ steps # <<>> /\ Phase(steps[1]) = 1
            /\ \A a, b \in DOMAIN steps :
                  a < b => Phase(steps[a]) <= Phase(steps[b])
            /\ n >= 0
            /\ \A k \in DOMAIN steps :
                  (steps[k].kind = "CustomTrigger") <=> (k > n)
            /\ \A k \in DOMAIN t.triggers :
                  \E c \in Range(manager.combinations),
                     v \in Range(manager.pyvers) :
                      steps[n + k].args.schedulerNames
                          = << get_trigger_name(t.triggers[k], c, v, NoBranch) >>

====
